---------------------------- MODULE Spec2Model ----------------------------
(***************************************************************************)
(* A model of the view layer of palanaeum (src/palanaeum/views.py): the    *)
(* events listing and its pagination, the entity views, registration and   *)
(* user settings, the advanced search view and the tag lookup.             *)
(*                                                                         *)
(* Every view is one action: it reads the request (its inputs, drawn with  *)
(* \E), reads and writes the database tables and the session, and leaves   *)
(* the response it returns in `response`.  `calls` is the trace of the     *)
(* data-layer calls the handler made while serving the last request.       *)
(***************************************************************************)
EXTENDS Integers, Sequences, FiniteSets, TLC

VARIABLES
    events_table,    \* Event rows, in the order Event's default manager yields them
    entries_table,   \* Entry rows
    tags_table,      \* Tag rows with the entries and events carrying each tag
    users_table,     \* auth users: a function username -> [email]
    settings_table,  \* UserSettings rows: a set of [id, user, page_length]
    session,         \* the client's session: [page_length]
    request,         \* the last request served
    response,        \* the response to it
    calls            \* data-layer calls made while serving it

vars == <<events_table, entries_table, tags_table, users_table,
          settings_table, session, request, response, calls>>

\* Python's None, where a record may stand instead
None == [is_none |-> TRUE]

-----------------------------------------------------------------------------
(* Bounds of the model.                                                    *)

MaxEvents == 12
MaxPageLength == 11
MaxPageParam == 4
MaxElapsed == 1
MaxEntityId == 2
MaxUsers == 2
MaxTagEntries == 4
MaxTagEvents == 2
DefaultPageLength == 3

-----------------------------------------------------------------------------
(* Small helpers.                                                          *)

Max(a, b) == IF a >= b THEN a ELSE b

Min(a, b) == IF a <= b THEN a ELSE b

\* ceil(a / b) for a >= 0, b > 0
CeilDiv(a, b) == (a + b - 1) \div b

\* list[lo:hi] of Python, for 0 <= lo
Slice(list, lo, hi) ==
    LET h == Min(hi, Len(list))
    IN  IF lo >= h THEN <<>> ELSE SubSeq(list, lo + 1, h)

RECURSIVE Join(_, _)
\* sep.join(parts), each part a sequence of tokens
Join(parts, sep) ==
    IF parts = <<>> THEN <<>>
    ELSE IF Len(parts) = 1 THEN Head(parts)
    ELSE Head(parts) \o <<sep>> \o Join(Tail(parts), sep)

RECURSIVE Concat(_)
Concat(lists) ==
    IF lists = <<>> THEN <<>> ELSE Head(lists) \o Concat(Tail(lists))

-----------------------------------------------------------------------------
(* django.core.paginator.Paginator, as the views use it.                   *)

\* Paginator.num_pages (allow_empty_first_page is left at its default, True)
NumPages(count, per_page, orphans) ==
    CeilDiv(Max(1, count - orphans), per_page)

\* A `page` request parameter is a string: a decimal literal, which int()
\* parses to `value`, or text that int() rejects.
NumericParam(n) == [numeric |-> TRUE, value |-> n]

TextParam == [numeric |-> FALSE, value |-> 0]

\* Paginator.validate_number: the page number, or the exception raised
ValidateNumber(page_num, num_pages) ==
    IF ~page_num.numeric
        THEN [exc |-> "PageNotAnInteger", number |-> 0]
    ELSE IF page_num.value < 1
        THEN [exc |-> "EmptyPage", number |-> page_num.value]
    ELSE IF page_num.value > num_pages /\ page_num.value # 1
        THEN [exc |-> "EmptyPage", number |-> page_num.value]
    ELSE [exc |-> "", number |-> page_num.value]

\* Paginator.page for a validated number: the Page object
PaginatorPageDropOrphans(object_list, per_page, orphans, number) ==
    LET bottom == (number - 1) * per_page
        top    == bottom + per_page
    IN  [number |-> number, object_list |-> Slice(object_list, bottom, top)]

PaginatorPage(object_list, per_page, orphans, number) ==
    LET count  == Len(object_list)
        bottom == (number - 1) * per_page
        top0   == bottom + per_page
        top    == IF top0 + orphans >= count THEN count ELSE top0
    IN  [number |-> number, object_list |-> Slice(object_list, bottom, top)]

\* paginator.page(page_num): the Page, or the exception validate_number raised
PageOrExc(object_list, per_page, orphans, page_num) ==
    LET v == ValidateNumber(page_num, NumPages(Len(object_list), per_page, orphans))
    IN  IF v.exc # "" THEN [exc |-> v.exc, page |-> None]
        ELSE [exc |-> "",
              page |-> PaginatorPage(object_list, per_page, orphans, v.number)]

-----------------------------------------------------------------------------
(* Event rows and the events listing.                                      *)

\* The collation rank of an event's name and its date: several events share a
\* name or a date, and the two orders differ.
EventName(i) == (i * 3) % 4

EventDate(i) == i % 3

\* Event.review_state of event i
EventReviewState(i) ==
    IF i % 3 = 0 THEN "REVIEW_APPROVED"
    ELSE IF i % 3 = 1 THEN "REVIEW_PENDING" ELSE "REVIEW_NA"

EventRow(i, vis) == [id |-> i, name |-> EventName(i), date |-> EventDate(i),
                     visible |-> vis, review_state |-> EventReviewState(i)]

\* Event.all_visible
AllVisible(table) == SelectSeq(table, LAMBDA e : e.visible)

\* The key QuerySet.order_by(sort_ord + sort_by, 'name') sorts on
Before(a, b, sort_by, sort_ord) ==
    LET ka == IF sort_by = "name" THEN a.name ELSE a.date
        kb == IF sort_by = "name" THEN b.name ELSE b.date
    IN  IF ka # kb THEN (IF sort_ord = "-" THEN ka > kb ELSE ka < kb)
        ELSE IF a.name # b.name THEN a.name < b.name
        ELSE a.id < b.id

RECURSIVE InsertSorted(_, _, _, _)
InsertSorted(e, list, sort_by, sort_ord) ==
    IF list = <<>> THEN <<e>>
    ELSE IF Before(e, Head(list), sort_by, sort_ord) THEN <<e>> \o list
    ELSE <<Head(list)>> \o InsertSorted(e, Tail(list), sort_by, sort_ord)

RECURSIVE OrderBy(_, _, _)
\* QuerySet.order_by: a NEW queryset; the one it is called on is unchanged
OrderBy(qs, sort_by, sort_ord) ==
    IF qs = <<>> THEN <<>>
    ELSE InsertSorted(Head(qs), OrderBy(Tail(qs), sort_by, sort_ord),
                      sort_by, sort_ord)

SortFields == {"name", "date"}

SortOrders == {"", "-"}

\* SortForm.is_valid for the choices (name, date)
SortFormValid(get) == get.sort_by \in SortFields /\ get.sort_ord \in SortOrders

\* The queryset the view paginates.  Line 67 calls events.order_by(...) and
\* drops the queryset it returns; `events` itself is what goes on.
EventsQuerySet(table, get) ==
    LET events  == AllVisible(table)
        ordered == IF SortFormValid(get)
                      THEN OrderBy(events, get.sort_by, get.sort_ord)
                      ELSE events
    IN  events

\* UserSettings.get_page_length(request)
GetPageLength == session.page_length

\* Lines 72-79: the page served, PageNotAnInteger and EmptyPage caught
EventsPageTextToLast(object_list, per_page, orphans, page_num) ==
    LET num_pages == NumPages(Len(object_list), per_page, orphans)
        first == PageOrExc(object_list, per_page, orphans, page_num)
    IN  IF first.exc = "" THEN first
        ELSE PageOrExc(object_list, per_page, orphans, NumericParam(num_pages))

EventsPage(object_list, per_page, orphans, page_num) ==
    LET num_pages == NumPages(Len(object_list), per_page, orphans)
        first == PageOrExc(object_list, per_page, orphans, page_num)
    IN  IF first.exc = "PageNotAnInteger"
            THEN PageOrExc(object_list, per_page, orphans, NumericParam(1))
        ELSE IF first.exc = "EmptyPage"
            THEN PageOrExc(object_list, per_page, orphans, NumericParam(num_pages))
        ELSE first

\* The `page` parameters tried: text, and the literals -1 .. MaxPageParam
PageParams == {TextParam} \cup {NumericParam(n) : n \in -1 .. MaxPageParam}

\* request.GET of an events request; an absent `page` reads as '1'
EventsRequests ==
    [sort_by : SortFields \cup {"bogus"}, sort_ord : SortOrders, page : PageParams]

\* events(request), lines 55-81
EventsView ==
    \E get \in EventsRequests :
        LET events      == EventsQuerySet(events_table, get)
            page_length == GetPageLength
            orphans     == page_length \div 10
            got         == EventsPage(events, page_length, orphans, get.page)
            paginator   == [object_list |-> events, per_page |-> page_length,
                            orphans |-> orphans, count |-> Len(events),
                            num_pages |-> NumPages(Len(events), page_length, orphans)]
        IN  /\ request' = [view |-> "events", get |-> get]
            /\ response' =
                  IF got.exc # ""
                      THEN [status |-> 500, exc |-> got.exc]
                      ELSE [status |-> 200,
                            template |-> "palanaeum/events_list.html",
                            paginator |-> paginator, page |-> got.page]
            /\ calls' = <<"Event.all_visible.all">>
            /\ UNCHANGED <<events_table, entries_table, tags_table, users_table,
                           settings_table, session>>

NoRequest == [view |-> "none"]

NoResponse == [status |-> 0]

\* The default order of Event rows is set by Event's Meta and the database,
\* neither of which the view fixes: ascending or descending primary key.
EventsInit ==
    /\ \E n \in 0 .. MaxEvents, asc \in BOOLEAN :
          events_table = [i \in 1 .. n |->
                            EventRow(IF asc THEN i ELSE n + 1 - i, TRUE)]
    /\ \E pl \in 1 .. MaxPageLength : session = [page_length |-> pl]
    /\ entries_table = <<>>
    /\ tags_table = <<>>
    /\ users_table = <<>>
    /\ settings_table = {}
    /\ request = NoRequest
    /\ response = NoResponse
    /\ calls = <<>>

EventsNext == EventsView

SpecEvents == EventsInit /\ [][EventsNext]_vars

IsEventsResponse == request.view = "events" /\ response.status = 200

IsPrefix(a, b) == Len(a) <= Len(b) /\ a = SubSeq(b, 1, Len(a))

IsSuffix(a, b) ==
    Len(a) <= Len(b) /\ a = SubSeq(b, Len(b) - Len(a) + 1, Len(b))

\* The page served is the first one: it starts the listing
ServesFirstPage ==
    /\ response.page.number = 1
    /\ IsPrefix(response.page.object_list, response.paginator.object_list)
    /\ response.paginator.count > 0 => response.page.object_list # <<>>

\* The page served is the last one: it ends the listing
ServesLastPage ==
    /\ response.page.number = response.paginator.num_pages
    /\ IsSuffix(response.page.object_list, response.paginator.object_list)
    /\ response.paginator.count > 0 => response.page.object_list # <<>>

\* C2: in the events listing a non-numeric `page` yields the first page, a
\* numeric `page` above the number of pages yields the last page, and no
\* `page` value makes the request fail.
C2_PageFallback ==
    request.view = "events" =>
        /\ response.status = 200
        /\ ~request.get.page.numeric => ServesFirstPage
        /\ (request.get.page.numeric
               /\ request.get.page.value > response.paginator.num_pages)
              => ServesLastPage

\* A page number past the end of a listing of several pages was asked for
C2_Witness ==
    /\ IsEventsResponse
    /\ request.get.page.numeric
    /\ response.paginator.num_pages >= 2
    /\ request.get.page.value > response.paginator.num_pages
    /\ response.page.number = response.paginator.num_pages

\* C3: every integer page number outside 1 .. num_pages is served the valid
\* page nearest to it: the first page below 1, the last page above num_pages.
C3_ClampsToNearest ==
    (/\ request.view = "events"
     /\ request.get.page.numeric
     /\ response.status = 200
     /\ \/ request.get.page.value < 1
        \/ request.get.page.value > response.paginator.num_pages)
    => response.page.number =
          (IF request.get.page.value < 1 THEN 1
                                         ELSE response.paginator.num_pages)

\* Pages 1 .. num_pages of the paginator the view built, in ascending order
AllPages(paginator) ==
    [n \in 1 .. paginator.num_pages |->
        PaginatorPage(paginator.object_list, paginator.per_page,
                      paginator.orphans, n).object_list]

\* C4: the pages 1 .. num_pages of the events listing, concatenated in
\* ascending page number, are the listing itself: nothing twice, nothing
\* skipped.
C4_PagesPartition ==
    IsEventsResponse =>
        /\ response.paginator.orphans = response.paginator.per_page \div 10
        /\ Concat(AllPages(response.paginator)) = response.paginator.object_list

\* A listing of several pages whose paginator has orphans
C4_Witness ==
    /\ IsEventsResponse
    /\ response.paginator.orphans >= 1
    /\ response.paginator.num_pages >= 2
    /\ response.paginator.count > response.paginator.per_page

\* a does not come after b in the order (sort_ord + sort_by, 'name')
NotAfter(a, b, sort_by, sort_ord) ==
    LET ka == IF sort_by = "name" THEN a.name ELSE a.date
        kb == IF sort_by = "name" THEN b.name ELSE b.date
    IN  IF ka # kb THEN (IF sort_ord = "-" THEN ka > kb ELSE ka < kb)
        ELSE a.name <= b.name

IsOrdered(list, sort_by, sort_ord) ==
    \A i \in 1 .. Len(list) : \A j \in i .. Len(list) :
        NotAfter(list[i], list[j], sort_by, sort_ord)

\* C9: with a valid sort form, the events paginated are ordered by the chosen
\* field in the chosen direction, ties broken by name.
C9_ListingSorted ==
    (IsEventsResponse /\ SortFormValid(request.get)) =>
        IsOrdered(response.paginator.object_list,
                  request.get.sort_by, request.get.sort_ord)

-----------------------------------------------------------------------------
(* The advanced search view and the search module it calls.                *)

Absent == "<absent>"

\* request.GET.get(key, default)
GetParam(get, key, default) == IF get[key] = Absent THEN default ELSE get[key]

\* The request parameters init_filters recognises, in filter order
FilterKeys == <<"query", "tags", "speaker">>

FilterValues == {"a", "b"}

\* init_filters(request): one filter per recognised key; a key that is
\* absent or empty gives an inactive filter
init_filters(get) ==
    [i \in 1 .. Len(FilterKeys) |->
        [key |-> FilterKeys[i], value |-> GetParam(get, FilterKeys[i], "")]]

\* bool(search_filter): whether the filter is active
Truthy(f) == f.value # ""

\* any(filters)
AnyFilter(filters) == \E i \in 1 .. Len(filters) : Truthy(filters[i])

\* search_filter.as_url_param(): nothing for an inactive filter
as_url_param(f) == IF Truthy(f) THEN <<f.key, "=", f.value>> ELSE <<>>

\* urlencode({'ordering': ordering})
urlencode_ordering(ordering) == <<"ordering", "=", ordering>>

\* The searchable entries and what each holds under every filter key
SearchCorpus ==
    { [id |-> 1, query |-> "a", tags |-> "a", speaker |-> "a"],
      [id |-> 2, query |-> "a", tags |-> "b", speaker |-> "a"],
      [id |-> 3, query |-> "b", tags |-> "b", speaker |-> "a"],
      [id |-> 4, query |-> "a", tags |-> "a", speaker |-> "b"] }

\* The predicate of one filter
Matches(entry, f) == entry[f.key] = f.value

\* execute_filters(filters): entry id -> score, for the entries every active
\* filter accepts; empty when no filter is active
execute_filters(filters) ==
    LET hits == IF ~AnyFilter(filters) THEN {}
                ELSE {e \in SearchCorpus :
                        \A i \in 1 .. Len(filters) :
                            Truthy(filters[i]) => Matches(e, filters[i])}
        n    == Cardinality({i \in 1 .. Len(filters) : Truthy(filters[i])})
    IN  [id \in {e.id : e \in hits} |-> n]

RECURSIVE SortedIds(_, _)
\* The ids in ascending (descending) order
SortedIds(ids, desc) ==
    IF ids = {} THEN <<>>
    ELSE LET m == CHOOSE x \in ids :
                    \A y \in ids : IF desc THEN x >= y ELSE x <= y
         IN  <<m>> \o SortedIds(ids \ {m}, desc)

\* get_search_results(entries_scores, ordering): `rank` is by descending
\* score, ties by ascending entry id; all scores of one search are equal
get_search_results(entries_scores, ordering) ==
    SortedIds(DOMAIN entries_scores, ordering \notin {"rank", ""})

\* paginate_search_results(request, results): (entries, paginator, page)
paginate_search_results(get, results) ==
    LET page_length == GetPageLength
        got == EventsPage(results, page_length, 0, get.page)
    IN  [entries   |-> got.page.object_list,
         paginator |-> [object_list |-> results, per_page |-> page_length,
                        orphans |-> 0, count |-> Len(results),
                        num_pages |-> NumPages(Len(results), page_length, 0)],
         page      |-> got.page]

RECURSIVE AppendEvery(_, _)
AppendEvery(search_params, filters) ==
    IF filters = <<>> THEN search_params
    ELSE AppendEvery(Append(search_params, as_url_param(Head(filters))),
                     Tail(filters))

RECURSIVE AppendActive(_, _)
\* Lines 197-199: the loop over the filters
AppendActive(search_params, filters) ==
    IF filters = <<>> THEN search_params
    ELSE AppendActive(IF Truthy(Head(filters))
                         THEN Append(search_params, as_url_param(Head(filters)))
                         ELSE search_params,
                      Tail(filters))

\* Lines 196-200 with the `if search_filter` test left out
SearchParamsUnguarded(filters, ordering) ==
    Join(AppendEvery(<<urlencode_ordering(ordering)>>, filters), "&")

\* Lines 196-200: the echoed search_params
SearchParams(filters, ordering) ==
    Join(AppendActive(<<urlencode_ordering(ordering)>>, filters), "&")

\* Lines 203-207: the search is run
RunSearch(filters, ordering, get, elapsed) ==
    LET entries_scores == execute_filters(filters)
        paged == paginate_search_results(
                     get, get_search_results(entries_scores, ordering))
    IN  [entries |-> paged.entries, paginator |-> paged.paginator,
         page |-> paged.page, search_time |-> elapsed,
         calls |-> <<"init_filters", "execute_filters", "get_search_results",
                     "paginate_search_results">>]

\* Lines 202-212 without the any(filters) test
SearchOutcomeUnguarded(filters, ordering, get, elapsed) ==
    RunSearch(filters, ordering, get, elapsed)

\* Lines 202-212: search only when a filter is active
SearchOutcome(filters, ordering, get, elapsed) ==
    IF AnyFilter(filters)
        THEN RunSearch(filters, ordering, get, elapsed)
        ELSE [entries |-> <<>>, paginator |-> None, page |-> None,
              search_time |-> 0, calls |-> <<"init_filters">>]

\* request.GET of a search request
SearchRequests ==
    [query : {Absent, "", "a"},
     tags : FilterValues \cup {Absent},
     speaker : {Absent, "a"},
     ordering : {Absent, "rank", "date"},
     page : {TextParam, NumericParam(2)}]

\* adv_search(request), lines 188-217.  `elapsed` is the difference of the
\* two time.time() readings.
AdvSearchView ==
    \E get \in SearchRequests, elapsed \in 0 .. MaxElapsed :
        LET filters  == init_filters(get)
            ordering == GetParam(get, "ordering", "rank")
            outcome  == SearchOutcome(filters, ordering, get, elapsed)
        IN  /\ request' = [view |-> "adv_search", get |-> get]
            /\ response' =
                  [status |-> 200,
                   template |-> "palanaeum/search/adv_search_results.html",
                   paginator |-> outcome.paginator,
                   entries |-> outcome.entries,
                   filters |-> filters,
                   search_done |-> AnyFilter(filters),
                   query |-> GetParam(get, "query", ""),
                   search_params |-> SearchParams(filters, ordering),
                   page |-> outcome.page,
                   search_time |-> outcome.search_time,
                   ordering |-> ordering]
            /\ calls' = outcome.calls
            /\ UNCHANGED <<events_table, entries_table, tags_table, users_table,
                           settings_table, session>>

SearchInit ==
    /\ events_table = <<>>
    /\ entries_table = <<>>
    /\ tags_table = <<>>
    /\ users_table = <<>>
    /\ settings_table = {}
    /\ \E pl \in 1 .. 2 : session = [page_length |-> pl]
    /\ request = NoRequest
    /\ response = NoResponse
    /\ calls = <<>>

SearchNext == AdvSearchView

SpecSearch == SearchInit /\ [][SearchNext]_vars

IsSearchResponse == request.view = "adv_search"

Called(name) == \E i \in 1 .. Len(calls) : calls[i] = name

\* The entry of the corpus with this id passes every active filter
PassesActiveFilters(id, filters) ==
    \E e \in SearchCorpus :
        /\ e.id = id
        /\ \A i \in 1 .. Len(filters) :
              filters[i].value # "" => e[filters[i].key] = filters[i].value

\* C1: with no active filter the search fails closed: execute_filters is not
\* called, the entries are empty, paginator and page are None, search_done is
\* false and search_time is 0; with an active filter search_done is true and
\* the entries come from evaluating the filters.
C1_FailsClosed ==
    IsSearchResponse =>
        IF \A i \in 1 .. Len(response.filters) : response.filters[i].value = ""
        THEN /\ ~Called("execute_filters")
             /\ response.entries = <<>>
             /\ response.paginator = None
             /\ response.page = None
             /\ response.search_done = FALSE
             /\ response.search_time = 0
        ELSE /\ response.search_done = TRUE
             /\ Called("execute_filters")
             /\ response.paginator # None
             /\ response.page # None
             /\ response.entries = response.page.object_list
             /\ \A i \in 1 .. Len(response.entries) :
                   PassesActiveFilters(response.entries[i], response.filters)

\* A search request none of whose filters is active
C1_Witness ==
    /\ IsSearchResponse
    /\ \A i \in 1 .. Len(response.filters) : response.filters[i].value = ""
    /\ response.entries = <<>>
    /\ response.search_done = FALSE

\* The URL parameters of the active filters, in filter order
ActiveUrlParams(filters) ==
    LET active == SelectSeq(filters, LAMBDA f : f.value # "")
    IN  [i \in 1 .. Len(active) |-> as_url_param(active[i])]

\* C8: search_params is the '&'-join of one ordering parameter ('rank' when
\* the request has none) and the URL parameter of each active filter, in
\* filter order; an inactive filter adds no text, and with no active filter
\* search_params is the ordering parameter alone.
C8_SearchParams ==
    IsSearchResponse =>
        LET ord == IF request.get.ordering = Absent THEN "rank"
                   ELSE request.get.ordering
        IN  /\ response.search_params =
                  Join(<<(<<"ordering", "=", ord>>)>>
                         \o ActiveUrlParams(response.filters), "&")
            /\ Cardinality({i \in 1 .. Len(response.search_params) :
                                response.search_params[i] = "&"})
                  = Cardinality({i \in 1 .. Len(response.filters) :
                                   response.filters[i].value # ""})
            /\ (\A i \in 1 .. Len(response.filters) :
                    response.filters[i].value = "")
                  => response.search_params = <<"ordering", "=", ord>>

\* A search whose second filter is inactive between two active ones, with no
\* ordering in the request
C8_Witness ==
    /\ IsSearchResponse
    /\ request.get.ordering = Absent
    /\ response.filters[1].value # ""
    /\ response.filters[2].value = ""
    /\ response.filters[3].value # ""
    /\ Len(response.search_params) = 11

-----------------------------------------------------------------------------
(* The entity views: view_event, event_no_slug, view_entry.                *)

\* Entry row i of event ev; `order` is its place within the event
EntryRow(i, ev, vis) == [id |-> i, event_id |-> ev, visible |-> vis,
                         order |-> MaxEntityId + 1 - i]

\* The rows of a table with this primary key (none or one)
RowsWithPk(table, pk) == SelectSeq(table, LAMBDA r : r.id = pk)

Exists(table, pk) == RowsWithPk(table, pk) # <<>>

\* get_object_or_404(Model, pk=pk): the row, through the default manager,
\* or Http404
get_object_or_404(table, pk) ==
    IF Exists(table, pk)
        THEN [found |-> TRUE, obj |-> RowsWithPk(table, pk)[1]]
        ELSE [found |-> FALSE, obj |-> None]

\* slugify(name)
slugify(name) == <<"slug", name>>

Http404 == [status |-> 404]

Http403 == [status |-> 403]

\* redirect(...) to the view_event URL of an event, with a fragment or none
RedirectToEvent(event_id, slug, fragment) ==
    [status |-> 302, location |-> [view |-> "view_event", event_id |-> event_id,
                                   slug |-> slug, fragment |-> fragment]]

RECURSIVE SortByOrder(_)
\* sorted(entries, key=lambda e: e.order), over a set of rows
SortByOrder(rows) ==
    IF rows = {} THEN <<>>
    ELSE LET m == CHOOSE x \in rows : \A y \in rows : x.order <= y.order
         IN  <<m>> \o SortByOrder(rows \ {m})

\* Entry.all_visible.filter(event=event), prefetched
VisibleEntriesOf(event) ==
    {entries_table[i] : i \in {j \in 1 .. Len(entries_table) :
        entries_table[j].event_id = event.id /\ entries_table[j].visible}}

\* Lines 115-121: the review message of an event
ReviewMessage(event) ==
    IF event.review_state = "REVIEW_APPROVED" THEN "review_reviewed_explanation"
    ELSE IF event.review_state = "REVIEW_PENDING"
        THEN "review_pending_explanation"
    ELSE ""

\* Lines 109-125: the event page
RenderEvent(event) ==
    [status |-> 200, template |-> "palanaeum/event.html", event |-> event,
     entries |-> SortByOrder(VisibleEntriesOf(event)),
     approval_msg |-> "approval_message",
     review_message |-> ReviewMessage(event)]

\* view_event without the event.visible() test of lines 106-107
ViewEventUnchecked(event_id) ==
    LET got == get_object_or_404(events_table, event_id)
    IN  IF ~got.found THEN Http404 ELSE RenderEvent(got.obj)

\* view_event(request, event_id), lines 100-125: the response
ViewEventResponse(event_id) ==
    LET got == get_object_or_404(events_table, event_id)
    IN  IF ~got.found THEN Http404
        ELSE IF ~got.obj.visible THEN Http403
        ELSE RenderEvent(got.obj)

\* event_no_slug(request, event_id), lines 84-89: the response
EventNoSlugResponse(event_id) ==
    LET got == get_object_or_404(events_table, event_id)
    IN  IF ~got.found THEN Http404
        ELSE RedirectToEvent(event_id, slugify(got.obj.name), <<>>)

\* view_entry(request, entry_id), lines 92-97: the response
ViewEntryResponse(entry_id) ==
    LET got == get_object_or_404(entries_table, entry_id)
    IN  IF ~got.found THEN Http404
        ELSE LET event == RowsWithPk(events_table, got.obj.event_id)[1]
             IN  RedirectToEvent(got.obj.event_id, slugify(event.name),
                                 <<"#e", got.obj.id>>)

\* The primary keys requests name: those that may exist and one that never does
EntityIds == 1 .. MaxEntityId + 1

ViewEvent ==
    \E event_id \in EntityIds :
        /\ request' = [view |-> "view_event", id |-> event_id]
        /\ response' = ViewEventResponse(event_id)
        /\ calls' = <<"get_object_or_404">>
        /\ UNCHANGED <<events_table, entries_table, tags_table, users_table,
                       settings_table, session>>

EventNoSlug ==
    \E event_id \in EntityIds :
        /\ request' = [view |-> "event_no_slug", id |-> event_id]
        /\ response' = EventNoSlugResponse(event_id)
        /\ calls' = <<"get_object_or_404">>
        /\ UNCHANGED <<events_table, entries_table, tags_table, users_table,
                       settings_table, session>>

ViewEntry ==
    \E entry_id \in EntityIds :
        /\ request' = [view |-> "view_entry", id |-> entry_id]
        /\ response' = ViewEntryResponse(entry_id)
        /\ calls' = <<"get_object_or_404">>
        /\ UNCHANGED <<events_table, entries_table, tags_table, users_table,
                       settings_table, session>>

\* The rows among `rows` whose primary key is in `ids`, in key order
TableOf(rows, ids) == SelectSeq(rows, LAMBDA r : r.id \in ids)

\* Any events, visible or not, and any entries of them, visible or not
EntitiesInit ==
    /\ \E ids \in SUBSET (1 .. MaxEntityId), vis \in [1 .. MaxEntityId -> BOOLEAN] :
          events_table =
              TableOf([i \in 1 .. MaxEntityId |-> EventRow(i, vis[i])], ids)
    /\ \E ids \in SUBSET (1 .. MaxEntityId), vis \in [1 .. MaxEntityId -> BOOLEAN],
          ev \in [1 .. MaxEntityId -> 1 .. MaxEntityId] :
          /\ \A i \in ids : Exists(events_table, ev[i])
          /\ entries_table =
                TableOf([i \in 1 .. MaxEntityId |-> EntryRow(i, ev[i], vis[i])],
                        ids)
    /\ tags_table = <<>>
    /\ users_table = <<>>
    /\ settings_table = {}
    /\ session = [page_length |-> 1]
    /\ request = NoRequest
    /\ response = NoResponse
    /\ calls = <<>>

EntitiesNext == ViewEvent \/ EventNoSlug \/ ViewEntry

SpecEntities == EntitiesInit /\ [][EntitiesNext]_vars

IsEntityRequest == request.view \in {"view_event", "event_no_slug", "view_entry"}

\* The event a request of an entity view names, as a sequence (none or one)
NamedEvent ==
    IF request.view = "view_entry"
        THEN IF Exists(entries_table, request.id)
                THEN RowsWithPk(events_table,
                                RowsWithPk(entries_table, request.id)[1].event_id)
                ELSE <<>>
        ELSE RowsWithPk(events_table, request.id)

\* The request names an event or entry that does not exist
NamesMissing ==
    IF request.view = "view_entry" THEN ~Exists(entries_table, request.id)
    ELSE ~Exists(events_table, request.id)

\* The request names an event or entry that exists and is not visible
NamesInvisible ==
    /\ ~NamesMissing
    /\ \/ ~NamedEvent[1].visible
       \/ /\ request.view = "view_entry"
          /\ ~RowsWithPk(entries_table, request.id)[1].visible

\* C6 as stated: a request of an entity view that names a missing or not
\* visible event or entry ends in a not-found response, and nothing else.
C6_MissingOrInvisibleIs404 ==
    (IsEntityRequest /\ (NamesMissing \/ NamesInvisible))
        => response.status = 404

\* C6 as the code has it: a missing event or entry is a not-found response in
\* all three views; an invisible event is never rendered: view_event answers
\* it with permission denied (403), and event_no_slug and view_entry, which
\* do not look at visibility, redirect to the event's view_event URL.
C6_MissingIs404InvisibleNeverRendered ==
    IsEntityRequest =>
        /\ NamesMissing => response.status = 404
        /\ NamesInvisible =>
              /\ response.status # 200
              /\ request.view = "view_event" => response.status = 403
              /\ request.view # "view_event" =>
                    /\ response.status = 302
                    /\ response.location.view = "view_event"
                    /\ response.location.event_id = NamedEvent[1].id
        /\ response.status = 200 =>
              /\ request.view = "view_event"
              /\ response.event.visible
              /\ response.event.id = request.id

\* view_event was asked for an event that exists and is not visible
C6_Witness ==
    /\ request.view = "view_event"
    /\ NamesInvisible
    /\ response.status = 403

-----------------------------------------------------------------------------
(* Registration and the user settings panel.                               *)

UserNames == 1 .. MaxUsers

Emails == {"e1", "e2"}

\* request.user of a request without a logged-in user
Anonymous == 0

\* get_config('default_page_length')
default_page_length == DefaultPageLength

\* UserCreationFormWithEmail(request.POST).is_valid(): the data are well
\* formed and the username is not taken
RegistrationValid(post) ==
    post.well_formed /\ post.username \notin DOMAIN users_table

\* form.save(commit=True): the users with the new one added
SaveUser(users, post) ==
    [u \in DOMAIN users \cup {post.username} |->
        IF u = post.username THEN [email |-> post.email] ELSE users[u]]

\* Registration that leaves lines 152-154 out
NoSettingsForNewUser(settings, new_user) == settings

\* Lines 152-154: the new user's UserSettings row, page_length set and saved
CreateSettings(settings, new_user) ==
    settings \cup {[id |-> Cardinality(settings) + 1, user |-> new_user,
                    page_length |-> default_page_length]}

RegisterRequests ==
    [method : {"GET"}, post : {None}]
      \cup [method : {"POST"},
            post : [username : UserNames, email : Emails, well_formed : BOOLEAN]]

\* register_user(request), lines 144-162
RegisterUserView ==
    \E req \in RegisterRequests :
        /\ request' = [view |-> "register_user", method |-> req.method,
                       post |-> req.post]
        /\ IF req.method = "POST" /\ RegistrationValid(req.post)
              THEN /\ users_table' = SaveUser(users_table, req.post)
                   /\ settings_table' =
                         CreateSettings(settings_table, req.post.username)
                   /\ response' = [status |-> 302, location |-> "auth_login",
                                    message |-> "account created"]
                   /\ calls' = <<"form.save", "UserSettings.objects.create",
                                  "settings.save">>
              ELSE /\ response' = [status |-> 200,
                                    template |-> "palanaeum/auth/register.html",
                                    form_bound |-> req.method = "POST"]
                   /\ calls' = <<>>
                   /\ UNCHANGED <<users_table, settings_table>>
        /\ UNCHANGED <<events_table, entries_table, tags_table, session>>

\* UserSettings.objects.get(user=user): the rows it finds
SettingsOf(user) == {st \in settings_table : st.user = user}

\* The page lengths a settings form may carry
PageLengthChoices == {MaxPageLength}

SettingsRequests ==
    [method : {"GET"}, post : {None}]
      \cup [method : {"POST"},
            post : [email : Emails, email_valid : BOOLEAN,
                    page_length : PageLengthChoices, settings_valid : BOOLEAN]]

\* What serving a request does: the response, the tables and the session
\* after it, and the data-layer calls made
Outcome(resp, users, settings, sess, made) ==
    [response |-> resp, users |-> users, settings |-> settings,
     session |-> sess, calls |-> made]

\* The body of user_settings, lines 170-185
UserSettingsBody(user, req) ==
    LET found == SettingsOf(user)
    IN  IF user \notin DOMAIN users_table \/ Cardinality(found) # 1
        THEN Outcome([status |-> 500,
                      exc |-> IF Cardinality(found) > 1
                                 THEN "MultipleObjectsReturned"
                                 ELSE "DoesNotExist"],
                     users_table, settings_table, session,
                     <<"UserSettings.objects.get">>)
        ELSE LET settings_obj == CHOOSE st \in found : TRUE
             IN  IF req.method = "POST"
                 THEN IF req.post.settings_valid /\ req.post.email_valid
                      THEN LET saved == [settings_obj EXCEPT
                                           !.page_length = req.post.page_length]
                           IN  Outcome(
                                 [status |-> 302, location |-> "auth_settings",
                                  message |-> "settings saved"],
                                 [users_table EXCEPT ![user].email = req.post.email],
                                 (settings_table \ {settings_obj}) \cup {saved},
                                 [session EXCEPT !.page_length = saved.page_length],
                                 <<"UserSettings.objects.get", "email_form.save",
                                   "settings_form.save">>)
                      ELSE Outcome(
                             [status |-> 200,
                              template |-> "palanaeum/auth/settings.html",
                              email |-> req.post.email,
                              page_length |-> req.post.page_length],
                             users_table, settings_table, session,
                             <<"UserSettings.objects.get">>)
                 ELSE Outcome(
                        [status |-> 200,
                         template |-> "palanaeum/auth/settings.html",
                         email |-> users_table[user].email,
                         page_length |-> settings_obj.page_length],
                        users_table, settings_table, session,
                        <<"UserSettings.objects.get">>)

\* user_settings without the login_required decorator of line 165
UserSettingsUndecorated(user, req) == UserSettingsBody(user, req)

\* user_settings(request) behind @login_required(login_url='auth_login'),
\* lines 165-185
UserSettingsOutcome(user, req) ==
    IF user = Anonymous
        THEN Outcome([status |-> 302, location |-> "auth_login"],
                     users_table, settings_table, session, <<>>)
        ELSE UserSettingsBody(user, req)

UserSettingsView ==
    \E user \in DOMAIN users_table \cup {Anonymous}, req \in SettingsRequests :
        LET out == UserSettingsOutcome(user, req)
        IN  /\ request' = [view |-> "user_settings", user |-> user,
                           method |-> req.method, post |-> req.post]
            /\ response' = out.response
            /\ users_table' = out.users
            /\ settings_table' = out.settings
            /\ session' = out.session
            /\ calls' = out.calls
            /\ UNCHANGED <<events_table, entries_table, tags_table>>

AccountsInit ==
    /\ events_table = <<>>
    /\ entries_table = <<>>
    /\ tags_table = <<>>
    /\ users_table = <<>>
    /\ settings_table = {}
    /\ session = [page_length |-> default_page_length]
    /\ request = NoRequest
    /\ response = NoResponse
    /\ calls = <<>>

AccountsNext == RegisterUserView \/ UserSettingsView

SpecAccounts == AccountsInit /\ [][AccountsNext]_vars

\* C7: a request to user_settings without an authenticated user, GET or POST,
\* is turned away to the login page: no UserSettings row and no e-mail
\* address is read, shown or changed, and the session keeps its page_length.
C7_AnonymousDenied ==
    [][(request'.view = "user_settings" /\ request'.user = Anonymous) =>
          /\ response'.status = 302
          /\ response'.location = "auth_login"
          /\ calls' = <<>>
          /\ UNCHANGED <<users_table, settings_table, session>>]_vars

\* An anonymous POST to user_settings while a registered user has settings
C7_Witness ==
    /\ request.view = "user_settings"
    /\ request.user = Anonymous
    /\ request.method = "POST"
    /\ request.post.settings_valid /\ request.post.email_valid
    /\ settings_table # {}
    /\ response.status = 302

\* Every registered user has exactly one UserSettings row
OneSettingsRowEach ==
    \A u \in DOMAIN users_table :
        Cardinality({st \in settings_table : st.user = u}) = 1

\* What a register_user request does to the tables
RegisterStep ==
    request'.view = "register_user" =>
        IF /\ request'.method = "POST"
           /\ request'.post.well_formed
           /\ request'.post.username \notin DOMAIN users_table
        THEN LET u == request'.post.username
             IN  /\ DOMAIN users_table' = DOMAIN users_table \cup {u}
                 /\ \E st \in settings_table' :
                       /\ st.user = u
                       /\ st.page_length = DefaultPageLength
                       /\ settings_table' \ {st} = settings_table
        ELSE UNCHANGED <<users_table, settings_table>>

\* A logged-in user's settings lookup finds its one row
LookupSucceeds ==
    (request.view = "user_settings" /\ request.user # Anonymous)
        => response.status # 500

\* C10: every user register_user creates gets exactly one UserSettings row,
\* with page_length the configured default_page_length; a GET or an invalid
\* POST creates no user and no row; so the lookup in user_settings finds
\* exactly one row for such a logged-in user.
C10_OneSettingsPerUser ==
    /\ [](OneSettingsRowEach /\ LookupSucceeds)
    /\ [][RegisterStep]_vars

\* Two users have registered and one of them opened the settings panel
C10_Witness ==
    /\ Cardinality(DOMAIN users_table) = 2
    /\ request.view = "user_settings"
    /\ request.user # Anonymous
    /\ response.status = 200
    /\ \A u \in DOMAIN users_table :
          \E st \in settings_table :
              st.user = u /\ st.page_length = DefaultPageLength

-----------------------------------------------------------------------------
(* The tag lookup, get_tags.                                               *)

\* The names of the tags, in the order Tag.objects yields them.  A name and
\* a query are sequences of characters.
TagNames == << <<"a", "b">>, <<"b">>, <<"c", " ", "b">> >>

Queries == { <<>>, <<"a">>, <<"b">> }

\* A tag carried by the entries 1 .. entries and the events 1 .. events
TagRow(name, entries, events) ==
    [name |-> name, entries |-> 1 .. entries, events |-> 1 .. events]

\* name__startswith=query
StartsWith(name, query) ==
    Len(query) <= Len(name) /\ SubSeq(name, 1, Len(query)) = query

\* name__contains=part
Contains(name, part) ==
    \E i \in 1 .. Len(name) - Len(part) + 1 :
        SubSeq(name, i, i + Len(part) - 1) = part

\* Q(name__startswith=query) | Q(name__contains=' ' + query)
TagMatches(tag, query) ==
    StartsWith(tag.name, query) \/ Contains(tag.name, <<" ">> \o query)

\* The rows of tag LEFT OUTER JOIN entries LEFT OUTER JOIN events that the
\* two Count annotations of one query group by tag; 0 stands for NULL
JoinedRows(tag) ==
    (IF tag.entries = {} THEN {0} ELSE tag.entries)
        \X (IF tag.events = {} THEN {0} ELSE tag.events)

\* .annotate(entry_count=Count('entries'), event_count=Count('events')):
\* each Count counts the joined rows whose column is not NULL
Annotate(tag) ==
    [name |-> tag.name,
     entry_count |-> Cardinality({r \in JoinedRows(tag) : r[1] # 0}),
     event_count |-> Cardinality({r \in JoinedRows(tag) : r[2] # 0})]

\* The sort key of line 233
TagKey(tag) == -(tag.entry_count + tag.event_count)

RECURSIVE InsertByKey(_, _)
\* Insert after every element whose key is not greater: the sort is stable
InsertByKey(tag, sorted) ==
    IF sorted = <<>> THEN <<tag>>
    ELSE IF TagKey(tag) < TagKey(Head(sorted)) THEN <<tag>> \o sorted
    ELSE <<Head(sorted)>> \o InsertByKey(tag, Tail(sorted))

RECURSIVE SortedByKey(_)
\* sorted(tags, key=lambda tag: -(tag.entry_count + tag.event_count))
SortedByKey(tags) ==
    IF tags = <<>> THEN <<>>
    ELSE InsertByKey(tags[Len(tags)], SortedByKey(SubSeq(tags, 1, Len(tags) - 1)))

\* get_tags(request), lines 220-233: the JSON results
GetTagsResults(query) ==
    LET matching == SelectSeq(tags_table, LAMBDA t : TagMatches(t, query))
        tags     == [i \in 1 .. Len(matching) |-> Annotate(matching[i])]
        ordered  == SortedByKey(tags)
    IN  [i \in 1 .. Len(ordered) |->
            [id |-> ordered[i].name,
             text |-> <<ordered[i].name,
                        ordered[i].entry_count + ordered[i].event_count>>]]

GetTagsView ==
    \E query \in Queries :
        /\ request' = [view |-> "get_tags", q |-> query]
        /\ response' = [status |-> 200, results |-> GetTagsResults(query)]
        /\ calls' = <<"Tag.objects.filter.annotate">>
        /\ UNCHANGED <<events_table, entries_table, tags_table, users_table,
                       settings_table, session>>

TagsInit ==
    /\ \E n \in [1 .. Len(TagNames) -> 0 .. MaxTagEntries],
          m \in [1 .. Len(TagNames) -> 0 .. MaxTagEvents] :
          tags_table = [i \in 1 .. Len(TagNames) |-> TagRow(TagNames[i], n[i], m[i])]
    /\ events_table = <<>>
    /\ entries_table = <<>>
    /\ users_table = <<>>
    /\ settings_table = {}
    /\ session = [page_length |-> 1]
    /\ request = NoRequest
    /\ response = NoResponse
    /\ calls = <<>>

TagsNext == GetTagsView

SpecTags == TagsInit /\ [][TagsNext]_vars

\* The number of entries carrying the tag plus the number of events carrying it
CombinedUsage(name) ==
    LET tag == CHOOSE t \in {tags_table[i] : i \in 1 .. Len(tags_table)} :
                   t.name = name
    IN  Cardinality(tag.entries) + Cardinality(tag.events)

\* C5: get_tags lists the matching tags so that the combined usage count,
\* the entries carrying the tag plus the events carrying it, never increases
\* along the list.
C5_SortedByCombinedUsage ==
    request.view = "get_tags" =>
        \A i \in 1 .. Len(response.results) :
            \A j \in i .. Len(response.results) :
                CombinedUsage(response.results[i].id)
                    >= CombinedUsage(response.results[j].id)

=============================================================================
